---- MODULE Spec2Model ----
(***************************************************************************)
(* Replay streaming engine of the fire tracking system (src/app.py,        *)
(* src/config.py): the producer thread (Scheduler), the bounded queue,     *)
(* the consumer thread (Dispatcher) and the WebSocket command handlers.    *)
(*                                                                         *)
(* Simulated time is counted in whole hours since an epoch that is         *)
(* midnight of day 0.  A timestamp is compared by the store as TEXT, so a  *)
(* formatted timestamp is modelled as <<day, separator, hour>> compared    *)
(* lexicographically, with separator 0 for ' ' and 1 for 'T'.              *)
(***************************************************************************)
EXTENDS Integers, Sequences, FiniteSets, TLC

VARIABLES
    store,              \* fire_events.datetime_utc of every row (hours)
    is_running,         \* producer.is_running
    is_paused,          \* producer.is_paused
    current_speed,      \* producer.current_speed
    start_date,         \* producer.start_date
    end_date,           \* producer.end_date
    current_datetime,   \* producer.current_datetime (the cursor)
    total_records,      \* producer.total_records
    processed_records,  \* producer.processed_records
    p_pc,               \* position of the producer thread ("none": no live thread)
    next_datetime,      \* run_producer local
    batch_data,         \* run_producer local
    data_queue,         \* the shared Queue
    c_is_running,       \* consumer.is_running
    c_pc,               \* position of the consumer thread ("none": no live thread)
    fire_statistics,    \* consumer.fire_statistics
    reply,              \* last event emitted by a command handler
    cmds,               \* number of commands handled so far
    session,            \* number of start commands answered playback_started
    pushed,             \* batches put on the queue since the last start command
    published,          \* events the consumer emitted since the last start command
    query_start,        \* start_dt of the tick query of the batch being built
    last_cmd,           \* the command handled last
    stopped,            \* a stop command was handled since the last start command
    received,           \* batches the consumer took off the queue since the last start command
    trail,              \* the payload of the last command, and what the last start set up
    threads             \* run_producer and run_consumer threads started and not yet returned

vars == <<store, is_running, is_paused, current_speed, start_date, end_date,
          current_datetime, total_records, processed_records, p_pc,
          next_datetime, batch_data, data_queue, c_is_running, c_pc,
          fire_statistics, reply, cmds, session, pushed, published,
          query_start, last_cmd, stopped, received, trail,
          threads>>

----------------------------------------------------------------------------
(* Bounds of the model *)

\* commands handled in a run where every command may come at any moment
MaxCmds == 2
\* commands handled in a run of sessions that follow one another
MaxSeqCmds == 3
\* batches and events kept in the histories of a session
MaxHist == 5

----------------------------------------------------------------------------
(* src/config.py *)

PLAYBACK_SPEEDS ==
    [slowest |-> 6, slow |-> 24, normal |-> 72, fast |-> 168, fastest |-> 336]

DEFAULT_SPEED == "slow"

SpeedHours(speed_key) ==
    IF speed_key \in DOMAIN PLAYBACK_SPEEDS
    THEN PLAYBACK_SPEEDS[speed_key]
    ELSE PLAYBACK_SPEEDS["normal"]

\* A catalog that gives every tier the same queue size
get_queue_size_flat(speed_key) == 100

get_queue_size(speed_key) ==
    IF SpeedHours(speed_key) <= 24 THEN 100
    ELSE IF SpeedHours(speed_key) <= 72 THEN 500
    ELSE IF SpeedHours(speed_key) <= 168 THEN 1000
    ELSE 2000

\* get_fade_duration, in hundredths of a second
get_fade_duration(speed_key) ==
    IF SpeedHours(speed_key) <= 24 THEN 200
    ELSE IF SpeedHours(speed_key) <= 72 THEN 100
    ELSE IF SpeedHours(speed_key) <= 168 THEN 50
    ELSE 25

----------------------------------------------------------------------------
(* Time, and the TEXT comparison of formatted timestamps *)

None == -1

\* A bound of the range that is missing or that fromisoformat cannot parse
Bad == -2

LOOKAHEAD_DAYS == 30

Min(a, b) == IF a <= b THEN a ELSE b

\* strftime('%Y-%m-%d %H:%M:%S'), and the text sqlite3 stores for a datetime
StrSpace(t) == <<t \div 24, 0, t % 24>>

\* datetime.isoformat()
StrIso(t) == <<t \div 24, 1, t % 24>>

TextLess(a, b) ==
    \/ a[1] < b[1]
    \/ a[1] = b[1] /\ a[2] < b[2]
    \/ a[1] = b[1] /\ a[2] = b[2] /\ a[3] < b[3]

TextLeq(a, b) == a = b \/ TextLess(a, b)

\* A query whose lower bound is inclusive
QueryIntervalInclusive(start_dt, end_dt) ==
    {r \in store : /\ TextLeq(StrSpace(start_dt), StrSpace(r))
                   /\ TextLeq(StrSpace(r), StrSpace(end_dt))}

\* WHERE datetime_utc > ? AND datetime_utc <= ?
QueryInterval(start_dt, end_dt) ==
    {r \in store : /\ TextLess(StrSpace(start_dt), StrSpace(r))
                   /\ TextLeq(StrSpace(r), StrSpace(end_dt))}

\* The outcome of a call that raises, which is no set of rows
Raised == {None}

\* A query_interval that lets the storage error reach its caller
QueryOutcomeRaising(fault, start_dt, end_dt) ==
    IF fault THEN Raised ELSE QueryInterval(start_dt, end_dt)

\* query_interval with its try/except, lines 104-158: on a storage error
\* the except clause logs and returns []
QueryOutcome(fault, start_dt, end_dt) ==
    IF fault THEN {} ELSE QueryInterval(start_dt, end_dt)

\* SELECT COUNT(*) ... WHERE datetime_utc >= ? AND datetime_utc <= ?
CountQuery(start_dt, end_dt) ==
    Cardinality({r \in store : /\ TextLeq(StrIso(start_dt), StrSpace(r))
                               /\ TextLeq(StrSpace(r), StrIso(end_dt))})

----------------------------------------------------------------------------
(* Inputs *)

\* The rows of fire_events the store may hold
Stores == {{3, 6, 10}, {3, 18, 1080}}

\* start_playback payloads with a short range
ShortStarts ==
    {<<0, 18, "slowest">>, <<0, 18, "slow">>, <<6, 12, "slowest">>}

\* start_playback payloads with a range longer than the lookahead window
LongStarts == {<<0, 1100, "fastest">>, <<0, 1100, "fast">>}

\* a start_playback payload whose range ends before it starts
InvertedStarts == {<<18, 0, "slow">>}

\* start_playback payloads with a bound that is missing or does not parse
MalformedStarts == {<<Bad, 18, "slow">>, <<0, Bad, "slow">>}

\* a start_playback payload with a speed key that is not in PLAYBACK_SPEEDS
UnknownSpeedStarts == {<<0, 18, "warp">>}

SpeedInputs == {"slowest", "fast", "warp"}

\* The example scenario, one tick of the 'slow' tier (24 h) for each of its
\* hours: range 0..96 h, records 12 h, 30 h and 92 h after its start
ScenarioStore == {12, 30, 92}

ScenarioStarts == {<<0, 96, "slow">>}

----------------------------------------------------------------------------
(* Queue items and observations *)

FireBatch(records, timestamp, speed) ==
    [type |-> "fire_batch", records |-> records, timestamp |-> timestamp,
     speed |-> speed]

EndOfData ==
    [type |-> "end_of_data", records |-> {}, timestamp |-> None, speed |-> ""]

NoBatch == [type |-> "none", records |-> {}, timestamp |-> None, speed |-> ""]

\* Queue(maxsize=config.get_queue_size(config.DEFAULT_SPEED))
QueueMaxsize == get_queue_size(DEFAULT_SPEED)

\* A queue that takes one item more than its capacity
QueueFullLate == Len(data_queue) > QueueMaxsize

QueueFull == Len(data_queue) >= QueueMaxsize

\* An observation is kept while the history has room
Record(h, x) == IF Len(h) < MaxHist THEN Append(h, x) ELSE h

\* A command without payload
NoPayload == <<None, None, "">>

\* payload: the payload of the last command; start_key: the speed key of the
\* last start command answered playback_started; start_speed: the speed in
\* force after it; change_cursor: the cursor when the first change_speed
\* after it was accepted; stop_pushed: the number of batches pushed when the
\* first stop command after it was handled; started: the threads it started
NoTrail ==
    [payload |-> NoPayload, start_key |-> "", start_speed |-> "",
     change_cursor |-> None, stop_pushed |-> None,
     started |-> [producer |-> FALSE, consumer |-> FALSE]]

----------------------------------------------------------------------------
(* Initial state: FireDataProducer.__init__, FireDataConsumer.__init__ *)

InitWith(rows) ==
    /\ store = rows
    /\ is_running = FALSE
    /\ is_paused = FALSE
    /\ current_speed = DEFAULT_SPEED
    /\ start_date = None
    /\ end_date = None
    /\ current_datetime = None
    /\ total_records = 0
    /\ processed_records = 0
    /\ p_pc = "none"
    /\ next_datetime = None
    /\ batch_data = NoBatch
    /\ data_queue = <<>>
    /\ c_is_running = FALSE
    /\ c_pc = "none"
    /\ fire_statistics = [total_fires |-> 0, current_time |-> None]
    /\ reply = "none"
    /\ cmds = 0
    /\ session = 0
    /\ pushed = <<>>
    /\ published = <<>>
    /\ query_start = None
    /\ last_cmd = "none"
    /\ stopped = FALSE
    /\ received = <<>>
    /\ trail = NoTrail
    /\ threads = [producer |-> 0, consumer |-> 0]

Init == \E rows \in Stores : InitWith(rows)

producerVars == <<is_running, current_datetime, total_records,
                  processed_records, p_pc, next_datetime, batch_data,
                  query_start, pushed>>

consumerVars == <<c_is_running, c_pc, fire_statistics, published, received>>

sessionVars == <<is_paused, current_speed, start_date, end_date>>

commandVars == <<reply, cmds, session, last_cmd, stopped, trail>>

----------------------------------------------------------------------------
(* FireDataProducer.run_producer, one action per step of the thread *)

\* An interval that also covers the time spent paused
NextDatetimeCatchUp(cur, speed_key, end) ==
    Min(cur + (IF last_cmd = "resume" THEN 2 ELSE 1) * PLAYBACK_SPEEDS[speed_key],
        end)

\* lines 195-202: the end of the interval, clamped to end_date
NextDatetime(cur, speed_key, end) ==
    Min(cur + PLAYBACK_SPEEDS[speed_key], end)

\* lines 211-213: the end of the lookahead window, clamped to end_date
FutureCheckTime(cur, end) == Min(cur + 24 * LOOKAHEAD_DAYS, end)

\* lines 208-216: the tick query and the lookahead query are both empty
EndOfActualData(cur, next, end) ==
    /\ QueryInterval(cur, next) = {}
    /\ cur < end
    /\ QueryInterval(cur, FutureCheckTime(cur, end)) = {}

\* line 188: while self.is_running and self.current_datetime <= self.end_date
LoopCondition == is_running /\ current_datetime <= end_date

\* line 193: elapsed >= 1.0 (left to the scheduler) and not self.is_paused
TickCondition == ~is_paused

\* lines 160-186: the thread starts, counts the records, sets the cursor
ProducerBegin ==
    /\ p_pc = "begin"
    /\ is_running' = TRUE
    /\ total_records' = CountQuery(start_date, end_date)
    /\ current_datetime' = start_date
    /\ p_pc' = "loop"
    /\ UNCHANGED <<store, threads, processed_records, next_datetime, batch_data,
                   query_start, pushed, data_queue>>
    /\ UNCHANGED <<sessionVars, consumerVars, commandVars>>

\* A loop whose end lets the thread return without the end-of-data signal
ProducerLoopExitSilent ==
    /\ p_pc = "loop"
    /\ ~LoopCondition
    /\ is_running' = FALSE
    /\ p_pc' = "none"
    /\ threads' = [threads EXCEPT !.producer = @ - 1]
    /\ UNCHANGED <<store, current_datetime, total_records, processed_records,
                   next_datetime, batch_data, query_start, pushed, data_queue>>
    /\ UNCHANGED <<sessionVars, consumerVars, commandVars>>

\* line 188 false: the loop is left for the finally block
ProducerLoopExit ==
    /\ p_pc = "loop"
    /\ ~LoopCondition
    /\ p_pc' = "finally"
    /\ UNCHANGED <<store, threads, is_running, current_datetime, total_records,
                   processed_records, next_datetime, batch_data, query_start,
                   pushed, data_queue>>
    /\ UNCHANGED <<sessionVars, consumerVars, commandVars>>

\* lines 188-202: a tick begins and the end of its interval is computed
ProducerTick ==
    /\ p_pc = "loop"
    /\ LoopCondition
    /\ TickCondition
    /\ next_datetime' = NextDatetime(current_datetime, current_speed, end_date)
    /\ p_pc' = "query"
    /\ UNCHANGED <<store, threads, is_running, current_datetime, total_records,
                   processed_records, batch_data, query_start, pushed,
                   data_queue>>
    /\ UNCHANGED <<sessionVars, consumerVars, commandVars>>

\* lines 204-226: the tick query, the lookahead query, the batch
ProducerQuery ==
    /\ p_pc = "query"
    /\ IF EndOfActualData(current_datetime, next_datetime, end_date)
       THEN /\ p_pc' = "finally"
            /\ UNCHANGED <<batch_data, query_start>>
       ELSE /\ batch_data' =
                   FireBatch(QueryInterval(current_datetime, next_datetime),
                             next_datetime, current_speed)
            /\ query_start' = current_datetime
            /\ p_pc' = "put"
    /\ UNCHANGED <<store, threads, is_running, current_datetime, total_records,
                   processed_records, next_datetime, pushed, data_queue>>
    /\ UNCHANGED <<sessionVars, consumerVars, commandVars>>

\* lines 204-226, 241-242 with storage errors: tick_fault in the tick query,
\* future_fault in the lookahead query; an exception that reached the loop
\* would be caught at line 241 and end the thread by its finally block
ProducerQueryWith(tick_fault, future_fault) ==
    /\ p_pc = "query"
    /\ LET records == QueryOutcome(tick_fault, current_datetime, next_datetime)
           future == QueryOutcome(future_fault, current_datetime,
                                  FutureCheckTime(current_datetime, end_date))
           probed == records = {} /\ current_datetime < end_date
       IN  IF \/ records = Raised
              \/ probed /\ future = Raised
              \/ probed /\ future = {}
           THEN /\ p_pc' = "finally"
                /\ UNCHANGED <<batch_data, query_start>>
           ELSE /\ batch_data' =
                       FireBatch(records, next_datetime, current_speed)
                /\ query_start' = current_datetime
                /\ p_pc' = "put"
    /\ UNCHANGED <<store, threads, is_running, current_datetime, total_records,
                   processed_records, next_datetime, pushed, data_queue>>
    /\ UNCHANGED <<sessionVars, consumerVars, commandVars>>

\* A tick in which the store fails in one of the two queries, or in both
ProducerQueryFault ==
    \E tick_fault, future_fault \in BOOLEAN :
        /\ tick_fault \/ future_fault
        /\ ProducerQueryWith(tick_fault, future_fault)

\* A put that leaves the cursor where it is when the batch is empty although
\* the store holds records in its window, so that the window is queried again
ProducerPutRetry ==
    /\ p_pc = "put"
    /\ ~QueueFull
    /\ data_queue' = Append(data_queue, batch_data)
    /\ processed_records' = processed_records + Cardinality(batch_data.records)
    /\ current_datetime' =
           IF /\ batch_data.records = {}
              /\ QueryInterval(query_start, batch_data.timestamp) # {}
           THEN current_datetime
           ELSE next_datetime
    /\ pushed' = Record(pushed, [ws |-> query_start,
                                 we |-> batch_data.timestamp,
                                 records |-> batch_data.records,
                                 speed |-> batch_data.speed,
                                 paused |-> is_paused])
    /\ p_pc' = "loop"
    /\ UNCHANGED <<store, threads, is_running, total_records, next_datetime,
                   batch_data, query_start>>
    /\ UNCHANGED <<sessionVars, consumerVars, commandVars>>

\* lines 228-237: the blocking put, the counter, the cursor
ProducerPut ==
    /\ p_pc = "put"
    /\ ~QueueFull
    /\ data_queue' = Append(data_queue, batch_data)
    /\ processed_records' = processed_records + Cardinality(batch_data.records)
    /\ current_datetime' = next_datetime
    /\ pushed' = Record(pushed, [ws |-> query_start,
                                 we |-> batch_data.timestamp,
                                 records |-> batch_data.records,
                                 speed |-> batch_data.speed,
                                 paused |-> is_paused])
    /\ p_pc' = "loop"
    /\ UNCHANGED <<store, threads, is_running, total_records, next_datetime,
                   batch_data, query_start>>
    /\ UNCHANGED <<sessionVars, consumerVars, commandVars>>

\* line 229 alone: the blocking put has returned, the counter and the cursor
\* are not yet updated
ProducerPutItem ==
    /\ p_pc = "put"
    /\ ~QueueFull
    /\ data_queue' = Append(data_queue, batch_data)
    /\ pushed' = Record(pushed, [ws |-> query_start,
                                 we |-> batch_data.timestamp,
                                 records |-> batch_data.records,
                                 speed |-> batch_data.speed,
                                 paused |-> is_paused])
    /\ p_pc' = "count"
    /\ UNCHANGED <<store, threads, is_running, current_datetime, total_records,
                   processed_records, next_datetime, batch_data, query_start>>
    /\ UNCHANGED <<sessionVars, consumerVars, commandVars>>

\* lines 230-237: the counter and the cursor, after the put has returned
ProducerCount ==
    /\ p_pc = "count"
    /\ processed_records' = processed_records + Cardinality(batch_data.records)
    /\ current_datetime' = next_datetime
    /\ p_pc' = "loop"
    /\ UNCHANGED <<store, threads, is_running, total_records, next_datetime,
                   batch_data, query_start, pushed, data_queue>>
    /\ UNCHANGED <<sessionVars, consumerVars, commandVars>>

\* lines 168-179, 242-243: the COUNT query raises a storage error, which the
\* except clause of the thread logs; the loop is not entered
ProducerBeginFault ==
    /\ p_pc = "begin"
    /\ is_running' = TRUE
    /\ p_pc' = "finally"
    /\ UNCHANGED <<store, threads, current_datetime, total_records,
                   processed_records, next_datetime, batch_data, query_start,
                   pushed, data_queue>>
    /\ UNCHANGED <<sessionVars, consumerVars, commandVars>>

\* lines 188-240, 242-243: a statement of the loop raises, at the loop test,
\* in a tick or at the put; the except clause of the thread logs the
\* exception and the finally block runs
ProducerRaise ==
    /\ p_pc \in {"loop", "query", "put"}
    /\ p_pc' = "finally"
    /\ UNCHANGED <<store, threads, is_running, current_datetime, total_records,
                   processed_records, next_datetime, batch_data, query_start,
                   pushed, data_queue>>
    /\ UNCHANGED <<sessionVars, consumerVars, commandVars>>

\* lines 244-252: the end-of-data signal, then is_running = False
ProducerFinally ==
    /\ p_pc = "finally"
    /\ ~QueueFull
    /\ data_queue' = Append(data_queue, EndOfData)
    /\ is_running' = FALSE
    /\ p_pc' = "none"
    /\ threads' = [threads EXCEPT !.producer = @ - 1]
    /\ UNCHANGED <<store, current_datetime, total_records, processed_records,
                   next_datetime, batch_data, query_start, pushed>>
    /\ UNCHANGED <<sessionVars, consumerVars, commandVars>>

Producer ==
    \/ ProducerBegin
    \/ ProducerLoopExit
    \/ ProducerTick
    \/ ProducerQuery
    \/ ProducerPut
    \/ ProducerFinally

----------------------------------------------------------------------------
(* FireDataConsumer.run_consumer *)

\* lines 281-299: statistics and the fire_update event, for a batch with records
EmitFireUpdate(data) ==
    IF data.records # {}
    THEN /\ fire_statistics' =
                [total_fires |-> fire_statistics.total_fires
                                   + Cardinality(data.records),
                 current_time |-> data.timestamp]
         /\ published' = Record(published,
                                [type |-> "fire_update",
                                 records |-> data.records,
                                 timestamp |-> data.timestamp,
                                 speed |-> data.speed])
    ELSE UNCHANGED <<fire_statistics, published>>

\* lines 301-304
ConsumerBegin ==
    /\ c_pc = "begin"
    /\ c_is_running' = TRUE
    /\ c_pc' = "test"
    /\ UNCHANGED <<store, threads, data_queue, fire_statistics, published,
                   received>>
    /\ UNCHANGED <<sessionVars, producerVars, commandVars>>

\* line 307 true: the thread goes on to wait on the queue
ConsumerTest ==
    /\ c_pc = "test"
    /\ c_is_running
    /\ c_pc' = "get"
    /\ UNCHANGED <<store, threads, data_queue, c_is_running, fire_statistics,
                   published, received>>
    /\ UNCHANGED <<sessionVars, producerVars, commandVars>>

\* line 307 false, lines 333-335
ConsumerExit ==
    /\ c_pc = "test"
    /\ ~c_is_running
    /\ c_is_running' = FALSE
    /\ c_pc' = "none"
    /\ threads' = [threads EXCEPT !.consumer = @ - 1]
    /\ UNCHANGED <<store, data_queue, fire_statistics, published, received>>
    /\ UNCHANGED <<sessionVars, producerVars, commandVars>>

\* lines 311, 318-323: a batch is received
ConsumerBatch ==
    /\ c_pc = "get"
    /\ data_queue # <<>>
    /\ Head(data_queue).type = "fire_batch"
    /\ data_queue' = Tail(data_queue)
    /\ EmitFireUpdate(Head(data_queue))
    /\ received' = Record(received, Head(data_queue))
    /\ c_pc' = "test"
    /\ UNCHANGED <<store, threads, c_is_running>>
    /\ UNCHANGED <<sessionVars, producerVars, commandVars>>

\* lines 311, 314-317, 333-335: the end-of-data signal is received
ConsumerEnd ==
    /\ c_pc = "get"
    /\ data_queue # <<>>
    /\ Head(data_queue).type = "end_of_data"
    /\ data_queue' = Tail(data_queue)
    /\ published' = Record(published,
                           [type |-> "playback_ended", records |-> {},
                            timestamp |-> None, speed |-> ""])
    /\ c_is_running' = FALSE
    /\ c_pc' = "none"
    /\ threads' = [threads EXCEPT !.consumer = @ - 1]
    /\ UNCHANGED <<store, fire_statistics, received>>
    /\ UNCHANGED <<sessionVars, producerVars, commandVars>>

\* A publish failure that ends the consumer thread
ConsumerBatchFaultFatal ==
    /\ c_pc = "get"
    /\ data_queue # <<>>
    /\ Head(data_queue).type = "fire_batch"
    /\ Head(data_queue).records # {}
    /\ data_queue' = Tail(data_queue)
    /\ received' = Record(received, Head(data_queue))
    /\ c_is_running' = FALSE
    /\ c_pc' = "none"
    /\ threads' = [threads EXCEPT !.consumer = @ - 1]
    /\ UNCHANGED <<store, fire_statistics, published>>
    /\ UNCHANGED <<sessionVars, producerVars, commandVars>>

\* lines 311, 318-320, 287-292, 328-329: socketio.emit raises in
\* emit_fire_update, after the statistics were updated; the exception is
\* logged in the loop, which goes on
ConsumerBatchFault ==
    /\ c_pc = "get"
    /\ data_queue # <<>>
    /\ Head(data_queue).type = "fire_batch"
    /\ Head(data_queue).records # {}
    /\ data_queue' = Tail(data_queue)
    /\ fire_statistics' =
           [total_fires |-> fire_statistics.total_fires
                              + Cardinality(Head(data_queue).records),
            current_time |-> Head(data_queue).timestamp]
    /\ received' = Record(received, Head(data_queue))
    /\ c_pc' = "test"
    /\ UNCHANGED <<store, threads, c_is_running, published>>
    /\ UNCHANGED <<sessionVars, producerVars, commandVars>>

\* lines 311, 314-316, 328-329: socketio.emit('playback_ended') raises; the
\* break of line 317 is not reached and the loop goes on
ConsumerEndFault ==
    /\ c_pc = "get"
    /\ data_queue # <<>>
    /\ Head(data_queue).type = "end_of_data"
    /\ data_queue' = Tail(data_queue)
    /\ c_pc' = "test"
    /\ UNCHANGED <<store, threads, c_is_running, fire_statistics, published,
                   received>>
    /\ UNCHANGED <<sessionVars, producerVars, commandVars>>

\* lines 311, 325-327: the get times out on an empty queue
ConsumerTimeout ==
    /\ c_pc = "get"
    /\ data_queue = <<>>
    /\ c_pc' = "test"
    /\ UNCHANGED <<store, threads, data_queue, c_is_running, fire_statistics,
                   published, received>>
    /\ UNCHANGED <<sessionVars, producerVars, commandVars>>

Consumer ==
    \/ ConsumerBegin
    \/ ConsumerTest
    \/ ConsumerExit
    \/ ConsumerBatch
    \/ ConsumerEnd
    \/ ConsumerTimeout

----------------------------------------------------------------------------
(* The WebSocket command handlers *)

\* A set_speed that falls back to 'normal' for an unknown key
SetSpeedFallback(speed_key) ==
    IF speed_key \in DOMAIN PLAYBACK_SPEEDS THEN speed_key ELSE "normal"

\* FireDataProducer.set_speed: an unknown key leaves the speed as it is
SetSpeed(speed_key) ==
    IF speed_key \in DOMAIN PLAYBACK_SPEEDS THEN speed_key ELSE current_speed

\* A thread object that never reports a live thread
ThreadNeverAlive == FALSE

\* threading.Thread.is_alive() of producer.thread and of consumer.thread
ProducerAlive == p_pc # "none"

ConsumerAlive == c_pc # "none"

\* handle_start_playback, lines 436-455: set_date_range has returned; set_speed,
\* unpause, start the threads that are not alive, playback_started
StartAccepted(sd, ed, speed_key) ==
    /\ start_date' = sd
    /\ end_date' = ed
    /\ current_datetime' = sd
    /\ current_speed' = SetSpeed(speed_key)
    /\ is_paused' = FALSE
    /\ IF ConsumerAlive
       THEN UNCHANGED <<c_is_running, c_pc>>
       ELSE c_is_running' = TRUE /\ c_pc' = "begin"
    /\ IF ProducerAlive
       THEN UNCHANGED <<is_running, p_pc>>
       ELSE is_running' = TRUE /\ p_pc' = "begin"
    /\ threads' =
           [producer |-> threads.producer + (IF ProducerAlive THEN 0 ELSE 1),
            consumer |-> threads.consumer + (IF ConsumerAlive THEN 0 ELSE 1)]
    /\ reply' = "playback_started"
    /\ session' = session + 1
    /\ stopped' = FALSE
    /\ pushed' = <<>>
    /\ published' = <<>>
    /\ received' = <<>>
    /\ trail' = [payload |-> <<sd, ed, speed_key>>,
                 start_key |-> speed_key,
                 start_speed |-> SetSpeed(speed_key),
                 change_cursor |-> None,
                 stop_pushed |-> None,
                 started |-> [producer |-> ~ProducerAlive,
                              consumer |-> ~ConsumerAlive]]

\* handle_start_playback, lines 433, 453-455: set_date_range raises at the
\* start bound (line 56) or, with start_date assigned, at the end bound
\* (line 57); the handler emits playback_error
StartRaised(sd, ed, speed_key) ==
    /\ start_date' = IF sd = Bad THEN start_date ELSE sd
    /\ reply' = "playback_error"
    /\ trail' = [trail EXCEPT !.payload = <<sd, ed, speed_key>>]
    /\ UNCHANGED <<end_date, current_datetime, current_speed, is_paused,
                   c_is_running, c_pc, is_running, p_pc, session, stopped,
                   pushed, published, received, threads>>

\* handle_start_playback
HandleStartPlayback(sd, ed, speed_key) ==
    /\ IF sd = Bad \/ ed = Bad
       THEN StartRaised(sd, ed, speed_key)
       ELSE StartAccepted(sd, ed, speed_key)
    /\ cmds' = cmds + 1
    /\ last_cmd' = "start"
    /\ UNCHANGED <<store, total_records, processed_records, next_datetime,
                   batch_data, query_start, data_queue, fire_statistics>>

\* handle_pause_playback
HandlePausePlayback ==
    /\ is_paused' = TRUE
    /\ reply' = "playback_paused"
    /\ cmds' = cmds + 1
    /\ last_cmd' = "pause"
    /\ trail' = [trail EXCEPT !.payload = NoPayload]
    /\ UNCHANGED <<store, threads, data_queue, current_speed, start_date,
                   end_date, session, stopped>>
    /\ UNCHANGED <<producerVars, consumerVars>>

\* handle_resume_playback
HandleResumePlayback ==
    /\ is_paused' = FALSE
    /\ reply' = "playback_resumed"
    /\ cmds' = cmds + 1
    /\ last_cmd' = "resume"
    /\ trail' = [trail EXCEPT !.payload = NoPayload]
    /\ UNCHANGED <<store, threads, data_queue, current_speed, start_date,
                   end_date, session, stopped>>
    /\ UNCHANGED <<producerVars, consumerVars>>

\* handle_stop_playback: producer.stop(), consumer.stop(), the queue is drained
HandleStopPlayback ==
    /\ is_running' = FALSE
    /\ c_is_running' = FALSE
    /\ data_queue' = <<>>
    /\ reply' = "playback_stopped"
    /\ cmds' = cmds + 1
    /\ last_cmd' = "stop"
    /\ stopped' = TRUE
    /\ trail' = [trail EXCEPT
                    !.payload = NoPayload,
                    !.stop_pushed = IF @ = None THEN Len(pushed) ELSE @]
    /\ UNCHANGED <<store, threads, current_datetime, total_records,
                   processed_records,
                   p_pc, next_datetime, batch_data, query_start, pushed,
                   c_pc, fire_statistics, published, received, session>>
    /\ UNCHANGED sessionVars

\* A change of speed that also sends the cursor back to the start of the range
HandleChangeSpeedRewind(new_speed) ==
    /\ current_speed' = SetSpeed(new_speed)
    /\ current_datetime' = start_date
    /\ reply' = IF new_speed \in DOMAIN PLAYBACK_SPEEDS
                THEN "speed_changed" ELSE "playback_error"
    /\ cmds' = cmds + 1
    /\ last_cmd' = "change_speed"
    /\ trail' = [trail EXCEPT
                    !.payload = <<None, None, new_speed>>,
                    !.change_cursor =
                        IF new_speed \in DOMAIN PLAYBACK_SPEEDS /\ @ = None
                        THEN current_datetime ELSE @]
    /\ UNCHANGED <<store, threads, data_queue, is_paused, start_date, end_date,
                   session, stopped, is_running, total_records,
                   processed_records, p_pc, next_datetime, batch_data,
                   query_start, pushed>>
    /\ UNCHANGED consumerVars

\* handle_change_speed
HandleChangeSpeed(new_speed) ==
    /\ current_speed' = SetSpeed(new_speed)
    /\ reply' = IF new_speed \in DOMAIN PLAYBACK_SPEEDS
                THEN "speed_changed" ELSE "playback_error"
    /\ cmds' = cmds + 1
    /\ last_cmd' = "change_speed"
    /\ trail' = [trail EXCEPT
                    !.payload = <<None, None, new_speed>>,
                    !.change_cursor =
                        IF new_speed \in DOMAIN PLAYBACK_SPEEDS /\ @ = None
                        THEN current_datetime ELSE @]
    /\ UNCHANGED <<store, threads, data_queue, is_paused, start_date, end_date,
                   session, stopped>>
    /\ UNCHANGED <<producerVars, consumerVars>>

----------------------------------------------------------------------------
(* Specifications *)

Start == \E x \in ShortStarts : HandleStartPlayback(x[1], x[2], x[3])

\* The producer thread, its ticks counted while the history has room
BoundedProducer ==
    \/ ProducerBegin
    \/ ProducerLoopExit
    \/ Len(pushed) < MaxHist /\ ProducerTick
    \/ ProducerQuery
    \/ ProducerPut
    \/ ProducerFinally

ChangeSpeed == \E k \in SpeedInputs : HandleChangeSpeed(k)

\* The consumer thread while no stop command clears its running flag
ConsumerUnstopped ==
    \/ ConsumerBegin
    \/ ConsumerTest
    \/ ConsumerBatch
    \/ ConsumerEnd
    \/ ConsumerTimeout

Budget == cmds < MaxCmds

SeqBudget == cmds < MaxSeqCmds

\* Every command, at any moment
Next ==
    \/ Budget /\ Start
    \/ Budget /\ HandlePausePlayback
    \/ Budget /\ HandleResumePlayback
    \/ Budget /\ HandleStopPlayback
    \/ Budget /\ ChangeSpeed
    \/ BoundedProducer
    \/ Consumer

Spec == Init /\ [][Next]_vars

\* A start command handled while no thread of an earlier session is alive
StartWhenIdle(inputs) ==
    /\ ~ProducerAlive
    /\ ~ConsumerAlive
    /\ \E x \in inputs : HandleStartPlayback(x[1], x[2], x[3])

\* start, pause, resume and change_speed at any moment, no stop
NextNoStop ==
    \/ Budget /\ Start
    \/ Budget /\ HandlePausePlayback
    \/ Budget /\ HandleResumePlayback
    \/ Budget /\ ChangeSpeed
    \/ BoundedProducer
    \/ ConsumerUnstopped

SpecNoStop == Init /\ [][NextNoStop]_vars

\* One session at a time, paused and resumed at any moment
NextPause ==
    \/ SeqBudget /\ StartWhenIdle(ShortStarts \cup InvertedStarts)
    \/ SeqBudget /\ HandlePausePlayback
    \/ SeqBudget /\ HandleResumePlayback
    \/ BoundedProducer
    \/ ConsumerUnstopped

SpecPause == Init /\ [][NextPause]_vars

\* One session at a time, never stopped or paused; both threads are scheduled
NextNatural ==
    \/ SeqBudget /\ StartWhenIdle(ShortStarts \cup LongStarts \cup InvertedStarts)
    \/ Producer
    \/ ConsumerUnstopped

SpecNatural ==
    /\ Init
    /\ [][NextNatural]_vars
    /\ WF_vars(Producer)
    /\ WF_vars(ConsumerUnstopped)

\* The first session of the process, never stopped or paused
NextFirstSession ==
    \/ cmds = 0 /\ StartWhenIdle(ShortStarts \cup LongStarts \cup InvertedStarts)
    \/ Producer
    \/ ConsumerUnstopped

SpecFirstSession ==
    /\ Init
    /\ [][NextFirstSession]_vars
    /\ WF_vars(Producer)
    /\ WF_vars(ConsumerUnstopped)

\* One session at a time, its speed changed at any moment
NextSpeed ==
    \/ SeqBudget /\ StartWhenIdle(ShortStarts \cup InvertedStarts)
    \/ SeqBudget /\ ChangeSpeed
    \/ BoundedProducer
    \/ ConsumerUnstopped

SpecSpeed == Init /\ [][NextSpeed]_vars

\* One session at a time, paused, resumed and stopped at any moment; both
\* threads are scheduled
NextStop ==
    \/ SeqBudget /\ StartWhenIdle(ShortStarts \cup InvertedStarts)
    \/ SeqBudget /\ HandlePausePlayback
    \/ SeqBudget /\ HandleResumePlayback
    \/ SeqBudget /\ HandleStopPlayback
    \/ Producer
    \/ Consumer

SpecStop ==
    /\ Init
    /\ [][NextStop]_vars
    /\ WF_vars(Producer)
    /\ WF_vars(Consumer)

\* One session at a time, started with well-formed and with invalid payloads
NextStartInputs ==
    \/ SeqBudget /\ StartWhenIdle(ShortStarts \cup MalformedStarts
                                  \cup UnknownSpeedStarts \cup InvertedStarts)
    \/ BoundedProducer
    \/ ConsumerUnstopped

SpecStartInputs == Init /\ [][NextStartInputs]_vars

\* The first session of the process over the store of the example scenario
NextScenario ==
    \/ cmds = 0 /\ StartWhenIdle(ScenarioStarts \cup InvertedStarts)
    \/ Producer
    \/ ConsumerUnstopped

SpecScenario ==
    /\ InitWith(ScenarioStore)
    /\ [][NextScenario]_vars
    /\ WF_vars(Producer)
    /\ WF_vars(ConsumerUnstopped)

\* One session at a time, with storage errors in the producer's queries and
\* publish failures in the consumer
NextFaults ==
    \/ Budget /\ StartWhenIdle(ShortStarts \cup InvertedStarts)
    \/ BoundedProducer
    \/ ProducerQueryFault
    \/ ConsumerUnstopped
    \/ ConsumerBatchFault
    \/ ConsumerEndFault

SpecFaults == Init /\ [][NextFaults]_vars

\* One session at a time, paused and resumed while it is running, stopped
\* at any moment
NextRetire ==
    \/ SeqBudget /\ StartWhenIdle(ShortStarts \cup InvertedStarts)
    \/ SeqBudget /\ is_running /\ ProducerAlive /\ HandlePausePlayback
    \/ SeqBudget /\ is_running /\ ProducerAlive /\ HandleResumePlayback
    \/ SeqBudget /\ HandleStopPlayback
    \/ BoundedProducer
    \/ Consumer

SpecRetire == Init /\ [][NextRetire]_vars

\* Sessions that are stopped and started again at any moment, also while the
\* threads of the stopped session are alive
NextRestart ==
    \/ SeqBudget /\ (session = 0 \/ stopped) /\ Start
    \/ SeqBudget /\ HandleStopPlayback
    \/ BoundedProducer
    \/ Consumer

SpecRestart == Init /\ [][NextRestart]_vars

\* The producer thread with the put of line 229 and the statements after it
\* as separate steps
ProducerStepwise ==
    \/ ProducerBegin
    \/ ProducerLoopExit
    \/ Len(pushed) < MaxHist /\ ProducerTick
    \/ ProducerQuery
    \/ ProducerPutItem
    \/ ProducerCount
    \/ ProducerFinally

\* Sessions that follow one another, the consumer free to run between any
\* two statements of the producer
NextCounters ==
    \/ Budget /\ StartWhenIdle(ShortStarts \cup InvertedStarts)
    \/ ProducerStepwise
    \/ ConsumerUnstopped

SpecCounters == Init /\ [][NextCounters]_vars

\* Sessions that end by the lookahead query, by a stop command or by an
\* exception in the producer thread
NextSentinel ==
    \/ Budget /\ StartWhenIdle(ShortStarts \cup InvertedStarts)
    \/ Budget /\ HandleStopPlayback
    \/ BoundedProducer
    \/ ProducerBeginFault
    \/ ProducerRaise
    \/ Consumer

SpecSentinel == Init /\ [][NextSentinel]_vars

----------------------------------------------------------------------------
(* Observations used by the properties *)

RECURSIVE SumRecords(_)
SumRecords(batches) ==
    IF batches = <<>> THEN 0
    ELSE Cardinality(Head(batches).records) + SumRecords(Tail(batches))

\* The store records with range_start < t <= range_end
RecordsInRange == {r \in store : start_date < r /\ r <= end_date}

\* The producer thread of the current session has run and finished
ProducerFinished == session > 0 /\ ~ProducerAlive

\* The history holds every batch of the session
HistoryComplete == Len(pushed) < MaxHist

EndedCount ==
    Cardinality({i \in 1..Len(published) : published[i].type = "playback_ended"})

FireUpdates == SelectSeq(published, LAMBDA e : e.type = "fire_update")

----------------------------------------------------------------------------
(* C1 *)

\* C1 (as claimed): when a session that was not stopped has run to its
\* natural completion, the batches it pushed hold, in total, as many records
\* as the store holds with range_start < t <= range_end.
C1_Completeness ==
    (ProducerFinished /\ ~stopped /\ HistoryComplete)
        => SumRecords(pushed) = Cardinality(RecordsInRange)

----------------------------------------------------------------------------
(* C2 *)

\* C2 (as claimed): a session that is started with range_start <= range_end
\* and is never stopped or paused eventually pushes the end-of-data signal
\* and returns to idle, with is_running = FALSE.
C2_NaturalTermination ==
    (ProducerAlive /\ start_date <= end_date)
        ~> (~ProducerAlive /\ ~is_running)

----------------------------------------------------------------------------
(* C3 *)

\* C3 (as claimed): the batches the consumer publishes have non-decreasing
\* window ends, and every record of a published batch lies after the
\* previous window end and not after its own, whatever start, pause, resume
\* and change_speed commands are interleaved.
C3_Ordering ==
    \A i \in 1..Len(FireUpdates) :
        /\ i > 1 => FireUpdates[i - 1].timestamp <= FireUpdates[i].timestamp
        /\ \A r \in FireUpdates[i].records :
              /\ r <= FireUpdates[i].timestamp
              /\ i > 1 => FireUpdates[i - 1].timestamp < r

----------------------------------------------------------------------------
(* C4 *)

\* C4 (as claimed): the batches pushed in one session are contiguous: the
\* first window starts at range_start and every later window starts where
\* the window before it ended.
C4_Contiguity ==
    \A i \in 1..Len(pushed) :
        IF i = 1 THEN pushed[i].ws = start_date
        ELSE pushed[i].ws = pushed[i - 1].we

----------------------------------------------------------------------------
(* C5 *)

\* C5: within one session no record is in two batches, and every record of
\* a batch lies strictly after the batch's window start and not after its
\* window end, so a record on a tick boundary is only in the batch that
\* ends there.
C5_NoDuplication ==
    \A i \in 1..Len(pushed) :
        /\ \A r \in pushed[i].records : pushed[i].ws < r /\ r <= pushed[i].we
        /\ \A j \in (i + 1)..Len(pushed) :
              pushed[i].records \cap pushed[j].records = {}

\* A record on the boundary of two batches that both hold records
C5_Witness ==
    /\ Len(pushed) >= 2
    /\ pushed[1].we \in pushed[1].records
    /\ pushed[2].ws = pushed[1].we
    /\ pushed[2].records # {}

----------------------------------------------------------------------------
(* C6 *)

\* C6 (as claimed): while a session is running the cursor is within the
\* range, and no step taken while it is running, a start command included,
\* moves the cursor back.
C6_CursorInvariant ==
    /\ [](is_running =>
            start_date <= current_datetime /\ current_datetime <= end_date)
    /\ [][is_running => current_datetime' >= current_datetime]_vars

----------------------------------------------------------------------------
(* C7 *)

\* C7 (as claimed): a start command handled while a session is running is
\* answered with an error and leaves range, cursor, speed and paused flag
\* as they were.
C7_StartRejected ==
    [][(is_running /\ last_cmd' = "start" /\ cmds' = cmds + 1)
          => /\ reply' = "playback_error"
             /\ UNCHANGED <<start_date, end_date, current_datetime,
                            current_speed, is_paused>>]_vars

----------------------------------------------------------------------------
(* C8 *)

\* C8 (as claimed): playback_ended is published at most once in a session,
\* and once the cursor of a session has reached range_end it is eventually
\* published.
C8_SessionEndedOnce ==
    /\ [](EndedCount <= 1)
    /\ (p_pc = "loop" /\ current_datetime = end_date) ~> (EndedCount = 1)

----------------------------------------------------------------------------
(* C9 *)

\* lines 188-237 run without any command: the batches of the first n ticks
RECURSIVE UninterruptedRun(_, _, _, _)
UninterruptedRun(cur, end, speed_key, n) ==
    IF n = 0 \/ cur > end THEN <<>>
    ELSE LET next == NextDatetime(cur, speed_key, end)
         IN  IF EndOfActualData(cur, next, end) THEN <<>>
             ELSE <<[ws |-> cur, we |-> next,
                     records |-> QueryInterval(cur, next),
                     speed |-> speed_key]>>
                  \o UninterruptedRun(next, end, speed_key, n - 1)

\* C9: with pause and resume issued at any moments, the batches pushed so
\* far are the first batches of the run without pause over the same store,
\* range and speed, and a finished session has pushed all of them.
C9_PauseIdempotent ==
    session > 0 =>
        LET run == UninterruptedRun(start_date, end_date, current_speed, MaxHist)
        IN  /\ Len(pushed) <= Len(run)
            /\ \A i \in 1..Len(pushed) :
                  /\ pushed[i].ws = run[i].ws
                  /\ pushed[i].we = run[i].we
                  /\ pushed[i].records = run[i].records
                  /\ pushed[i].speed = run[i].speed
            /\ (ProducerFinished /\ HistoryComplete) => Len(pushed) = Len(run)

\* A batch pushed while the paused flag was set, a later one after resume
C9_Witness ==
    \E i, j \in 1..Len(pushed) :
        i < j /\ pushed[i].paused /\ ~pushed[j].paused /\ pushed[j].records # {}

----------------------------------------------------------------------------
(* C10 *)

\* C10 (as claimed): while the paused flag is set the producer issues no
\* query, pushes no batch, does not advance the cursor and pushes no
\* end-of-data signal of a natural end, also when the pause arrived during
\* a tick.
C10_PausedNoProgress ==
    [][is_paused =>
          ~(ProducerQuery \/ ProducerPut \/ (is_running /\ ProducerFinally))]_vars

----------------------------------------------------------------------------
(* C11 *)

\* C11: every batch pushed with a window start before the cursor at which
\* the speed was changed has the window and the records it has in the run
\* at the speed of the start command, and a change_speed command does not
\* move the cursor.
C11_SpeedChangeLocality ==
    /\ [](session > 0 =>
            LET run == UninterruptedRun(start_date, end_date,
                                        trail.start_speed, MaxHist)
            IN  \A i \in 1..Len(pushed) :
                   (trail.change_cursor = None
                       \/ pushed[i].ws < trail.change_cursor)
                   => /\ i <= Len(run)
                      /\ pushed[i].ws = run[i].ws
                      /\ pushed[i].we = run[i].we
                      /\ pushed[i].records = run[i].records)
    /\ [][(last_cmd' = "change_speed" /\ cmds' = cmds + 1)
             => current_datetime' = current_datetime]_vars

\* A batch from before the change, and a later one whose window is not the
\* one the speed of the start command gives
C11_Witness ==
    /\ trail.change_cursor # None
    /\ \E i, j \in 1..Len(pushed) :
          /\ pushed[i].ws < trail.change_cursor
          /\ pushed[j].ws >= trail.change_cursor
          /\ pushed[j].we #
                NextDatetime(pushed[j].ws, trail.start_speed, end_date)

----------------------------------------------------------------------------
(* C12 *)

IsPrefix(a, b) ==
    /\ Len(a) <= Len(b)
    /\ \A i \in 1..Len(a) : a[i] = b[i]

\* The batches pushed in the session, as the items put on the queue
PushedItems ==
    [i \in 1..Len(pushed) |->
        FireBatch(pushed[i].records, pushed[i].we, pushed[i].speed)]

QueueBatches == SelectSeq(data_queue, LAMBDA e : e.type = "fire_batch")

----------------------------------------------------------------------------
(* C13 *)

\* C13 (as claimed): once a stop command has been handled and the producer
\* and the consumer thread have both finished, the queue is empty.
C13_StopLeavesQueueEmpty ==
    (stopped /\ ~ProducerAlive /\ ~ConsumerAlive) => data_queue = <<>>

----------------------------------------------------------------------------
(* C14 *)

\* C14 (as claimed): after a stop command, handled at any moment after a
\* start command, the producer begins no further tick, so that it pushes no
\* batch other than the one of a tick already begun, and it eventually is
\* idle with is_running = FALSE.
C14_StopTerminates ==
    /\ [][stopped => ~ProducerTick]_vars
    /\ stopped ~> (~ProducerAlive /\ ~is_running)

----------------------------------------------------------------------------
(* C15 *)

\* C15: a change_speed command with a key of PLAYBACK_SPEEDS sets the speed
\* to that key and is answered speed_changed; with any other key it is
\* answered playback_error and leaves speed, range, cursor, paused flag and
\* running flag as they were.
C15_ChangeSpeedValidated ==
    [][(last_cmd' = "change_speed" /\ cmds' = cmds + 1)
          => IF trail'.payload[3] \in DOMAIN PLAYBACK_SPEEDS
             THEN /\ current_speed' = trail'.payload[3]
                  /\ reply' = "speed_changed"
             ELSE /\ reply' = "playback_error"
                  /\ UNCHANGED <<current_speed, start_date, end_date,
                                 current_datetime, is_paused, is_running>>]_vars

\* An unknown key was refused in a session whose speed is not the default
C15_Witness ==
    /\ last_cmd = "change_speed"
    /\ trail.payload[3] \notin DOMAIN PLAYBACK_SPEEDS
    /\ reply = "playback_error"
    /\ session > 0
    /\ current_speed = "slowest"

----------------------------------------------------------------------------
(* C16 *)

\* A payload with a bound that is missing or does not parse, with
\* range_start > range_end, or with a speed key that is not in the catalog
InvalidStart(payload) ==
    \/ payload[1] = Bad
    \/ payload[2] = Bad
    \/ payload[1] > payload[2]
    \/ payload[3] \notin DOMAIN PLAYBACK_SPEEDS

\* C16 (as claimed): a start command with an invalid payload is answered
\* playback_error, starts no thread and leaves range, cursor, speed, paused
\* flag and running flag as they were.
C16_StartValidated ==
    [][(last_cmd' = "start" /\ cmds' = cmds + 1
          /\ InvalidStart(trail'.payload))
          => /\ reply' = "playback_error"
             /\ UNCHANGED <<start_date, end_date, current_datetime,
                            current_speed, is_paused, is_running,
                            p_pc, c_pc>>]_vars

----------------------------------------------------------------------------
(* C17 *)

\* The latest of range_start and the times of the store's records
EndOfDataTime ==
    CHOOSE t \in store \cup {start_date} :
        \A r \in store \cup {start_date} : r <= t

\* The store holds no record after a time T with range_start <= T < range_end
DataEndsInRange == session > 0 /\ EndOfDataTime < end_date

\* C17 (as claimed): when the store holds no record after a time T with
\* range_start <= T < range_end, a session that is not stopped pushes no
\* batch whose window starts at or after T, that is, after the window that
\* holds T; a tick whose query and lookahead query are both empty ends the
\* loop without a batch and without moving the cursor; playback_ended is
\* published at most once, and eventually once.
C17_EndOfDataTermination ==
    /\ [](DataEndsInRange =>
            /\ \A i \in 1..Len(pushed) : pushed[i].ws < EndOfDataTime
            /\ EndedCount <= 1)
    /\ [][(p_pc = "query" /\ p_pc' # "query"
             /\ EndOfActualData(current_datetime, next_datetime, end_date))
            => /\ p_pc' = "finally"
               /\ UNCHANGED <<current_datetime, data_queue, pushed>>]_vars
    /\ (DataEndsInRange /\ ProducerAlive) ~> (EndedCount = 1)

----------------------------------------------------------------------------
(* C18 *)

InScenario ==
    /\ session > 0
    /\ store = ScenarioStore
    /\ <<start_date, end_date, current_speed>> \in ScenarioStarts

\* The four batches of the example, in the hours of the scenario
ScenarioBatches ==
    <<[ws |-> 0, we |-> 24, records |-> {12}],
      [ws |-> 24, we |-> 48, records |-> {30}],
      [ws |-> 48, we |-> 72, records |-> {}],
      [ws |-> 72, we |-> 96, records |-> {92}]>>

\* C18 (as claimed): in the example scenario the session pushes exactly
\* the four batches of the example, with their windows and records, then
\* playback_ended is published, and nothing is published after it.
C18_ExampleScenario ==
    /\ [](InScenario =>
            /\ Len(pushed) <= Len(ScenarioBatches)
            /\ \A i \in 1..Len(pushed) :
                  /\ pushed[i].ws = ScenarioBatches[i].ws
                  /\ pushed[i].we = ScenarioBatches[i].we
                  /\ pushed[i].records = ScenarioBatches[i].records
            /\ \A i \in 1..Len(published) :
                  published[i].type = "playback_ended" => i = Len(published))
    /\ (InScenario /\ ProducerAlive)
          ~> (EndedCount = 1 /\ Len(pushed) = Len(ScenarioBatches))

----------------------------------------------------------------------------
(* C19 *)

\* C19 (as claimed): during a session the capacity of the queue is the one
\* get_queue_size gives for the speed key of the session's start command.
C19_CapacityFromStartTier ==
    session > 0 => QueueMaxsize = get_queue_size(trail.start_key)

----------------------------------------------------------------------------
(* C20 *)

\* No session is running: the running flag is clear and no producer thread
\* is alive
Idle == ~is_running /\ ~ProducerAlive

\* C20 (as claimed): a pause or resume command handled while no session is
\* running leaves the paused flag, the running flag, the speed, the range
\* and the cursor as they were.
C20_PauseResumeNoOpWhenIdle ==
    [][(Idle /\ last_cmd' \in {"pause", "resume"} /\ cmds' = cmds + 1)
          => UNCHANGED <<is_paused, is_running, current_speed, start_date,
                         end_date, current_datetime>>]_vars

----------------------------------------------------------------------------
(* C21 *)

\* C21: a storage error in a query of a tick is taken as an empty result:
\* the producer pushes the batch of the tick, without records if the tick
\* query failed, or it ends the loop by the end-of-data test when the tick
\* query gave no records and the lookahead query failed or gave none; it
\* ends the loop in no other case.
C21_StorageErrorContained ==
    [][\A tick_fault, future_fault \in BOOLEAN :
          ((tick_fault \/ future_fault)
              /\ ProducerQueryWith(tick_fault, future_fault))
          => LET records == IF tick_fault THEN {}
                            ELSE QueryInterval(current_datetime, next_datetime)
                 future == IF future_fault THEN {}
                           ELSE QueryInterval(current_datetime,
                                   FutureCheckTime(current_datetime, end_date))
             IN  IF records = {} /\ current_datetime < end_date /\ future = {}
                 THEN p_pc' = "finally"
                 ELSE /\ p_pc' = "put"
                      /\ batch_data'.records = records
                      /\ is_running' = is_running]_vars

\* A batch without records was pushed for a window in which the store has
\* records, and the producer pushed a further batch after it
C21_Witness ==
    \E i \in 1..Len(pushed) :
        /\ pushed[i].records = {}
        /\ QueryInterval(pushed[i].ws, pushed[i].we) # {}
        /\ i < Len(pushed)

----------------------------------------------------------------------------
(* C22 *)

\* Records counted in the statistics whose fire_update was not published
UnpublishedFires == fire_statistics.total_fires - SumRecords(FireUpdates)

\* C22: a publish failure, for a batch or for playback_ended, leaves the
\* consumer thread in its loop with its running flag as it was, at the loop
\* test from which it goes on to the next get, and changes no field of the
\* producer or of the session.
C22_PublishFaultContained ==
    [][(ConsumerBatchFault \/ ConsumerEndFault)
          => /\ c_pc' = "test"
             /\ c_is_running' = c_is_running
             /\ UNCHANGED <<current_datetime, is_running, is_paused,
                            current_speed, start_date, end_date, p_pc>>]_vars

\* In the first session the publish of a batch failed and the fire_update
\* of a later batch was published
C22_Witness ==
    /\ session = 1
    /\ UnpublishedFires > 0
    /\ Len(received) >= 2
    /\ Len(FireUpdates) >= 1
    /\ FireUpdates[Len(FireUpdates)].timestamp = received[Len(received)].timestamp
    /\ c_pc = "test"

----------------------------------------------------------------------------
(* C23 *)

\* C23 (as claimed): when a session that was not stopped has completed,
\* processed_records is the number of store records with
\* range_start < t <= range_end of that session, in the first session and
\* in every later one.
C23_EmittedCount ==
    (ProducerFinished /\ ~stopped)
        => processed_records = Cardinality(RecordsInRange)

----------------------------------------------------------------------------
(* C24 *)

\* A step of a command handler
CommandStep == cmds' # cmds

\* C24 (as claimed): the running flags, the paused flag, the speed and the
\* range are changed by command handlers only, and the cursor and the
\* counters by the worker threads only once a producer thread is alive, so
\* that no step of a thread changes what a command has written.
C24_SingleWriter ==
    [][/\ ~CommandStep
            => UNCHANGED <<is_running, c_is_running, is_paused,
                           current_speed, start_date, end_date>>
       /\ (CommandStep /\ ProducerAlive)
            => UNCHANGED <<current_datetime, total_records,
                           processed_records, fire_statistics>>]_vars

----------------------------------------------------------------------------
(* C25 *)

\* The bundle of a tier of the catalog
Bundle(speed_key) ==
    [hours |-> PLAYBACK_SPEEDS[speed_key],
     capacity |-> get_queue_size(speed_key),
     decay |-> get_fade_duration(speed_key)]

\* C25: the speed in force is a tier of the catalog; of any two tiers of
\* the catalog the one with more hours per second has a queue size at least
\* as large and a fade duration at most as long, and the tier with the most
\* hours per second has a larger queue size than the tier with the fewest.
C25_SpeedCatalog ==
    \A a, b \in DOMAIN PLAYBACK_SPEEDS \cup {current_speed} :
        /\ Bundle(a).hours <= Bundle(b).hours
              => /\ Bundle(a).capacity <= Bundle(b).capacity
                 /\ Bundle(a).decay >= Bundle(b).decay
        /\ (/\ \A k \in DOMAIN PLAYBACK_SPEEDS :
                  Bundle(a).hours <= Bundle(k).hours
                     /\ Bundle(k).hours <= Bundle(b).hours
            /\ a # b)
              => Bundle(a).capacity < Bundle(b).capacity

\* A session started at one tier runs at a faster one, whose queue size is
\* larger and whose fade duration is shorter
C25_Witness ==
    /\ session > 0
    /\ trail.start_key \in DOMAIN PLAYBACK_SPEEDS
    /\ Bundle(trail.start_key).hours < Bundle(current_speed).hours
    /\ Bundle(trail.start_key).capacity < Bundle(current_speed).capacity
    /\ Bundle(trail.start_key).decay > Bundle(current_speed).decay

----------------------------------------------------------------------------
(* C26 *)

\* C26 (as claimed): for every batch the consumer has received, a batch
\* without records included, one fire_update with the batch's timestamp and
\* speed was published, and the statistics hold the timestamp of the batch
\* received last.
C26_UpdatePerBatch ==
    (session > 0 /\ Len(received) < MaxHist)
        => /\ Len(FireUpdates) = Len(received)
           /\ \A i \in 1..Len(received) :
                 /\ FireUpdates[i].timestamp = received[i].timestamp
                 /\ FireUpdates[i].speed = received[i].speed
                 /\ FireUpdates[i].records = received[i].records
           /\ received # <<>>
                 => fire_statistics.current_time
                       = received[Len(received)].timestamp

----------------------------------------------------------------------------
(* C27 *)

\* C27 (as claimed): after a stop command, handled at any moment after the
\* consumer was started, the loop test of the consumer does not pass again,
\* so that at most the get in progress is completed, and the consumer
\* thread eventually finishes.
C27_ConsumerStops ==
    /\ [][stopped => ~ConsumerTest]_vars
    /\ stopped ~> ~ConsumerAlive

----------------------------------------------------------------------------
(* C28 *)

\* C28 (as claimed): the window of every pushed batch has the width that
\* the speed tagged on the batch gives, clamped to range_end, also when
\* change_speed is handled during a tick.
C28_SpeedTagMatchesWindow ==
    \A i \in 1..Len(pushed) :
        pushed[i].we - pushed[i].ws
            = Min(PLAYBACK_SPEEDS[pushed[i].speed], end_date - pushed[i].ws)

----------------------------------------------------------------------------
(* C29 *)

\* C29 (as claimed): after a stop command the producer pushes at most one
\* more batch, the one of the tick in flight, and the loop test that
\* follows the stop ends the loop.
C29_StopAfterInFlightTick ==
    /\ [](stopped => Len(pushed) <= trail.stop_pushed + 1)
    /\ [][(stopped /\ p_pc = "loop") => ~ProducerTick]_vars

----------------------------------------------------------------------------
(* C30 *)

\* C30 (as claimed): once both threads of a session have finished, after a
\* stop command or after the natural end, the running flag and the paused
\* flag are clear.
C30_RetiredIsIdle ==
    (session > 0 /\ ~ProducerAlive /\ ~ConsumerAlive)
        => ~is_running /\ ~is_paused

----------------------------------------------------------------------------
(* C31 *)

\* C31: for any sequence of start and stop commands handled one at a time,
\* at most one run_producer thread and at most one run_consumer thread is
\* alive at any moment.
C31_SingleSession ==
    /\ threads.producer <= 1
    /\ threads.consumer <= 1

\* A start command was handled while both threads of an earlier session were
\* alive and started no thread, and a start command before it started both
C31_Witness ==
    /\ session = 2
    /\ last_cmd = "start"
    /\ ~trail.started.producer
    /\ ~trail.started.consumer
    /\ threads = [producer |-> 1, consumer |-> 1]

----------------------------------------------------------------------------
(* C32 *)

\* C32 (as claimed): in a session started after an earlier session, the
\* consumer publishes playback_ended only when the producer thread that the
\* start command started has pushed its end-of-data signal and returned.
C32_NoPrematureEnd ==
    (session >= 2 /\ trail.started.producer /\ EndedCount > 0)
        => ~ProducerAlive

----------------------------------------------------------------------------
(* C33 *)

\* C33 (as claimed): when the start handler replies playback_started, a
\* producer thread is alive whose is_running is TRUE, or is set to TRUE by
\* the first statement the thread has yet to run, and so is a consumer
\* thread, also when the start command follows a stop command whose threads
\* have not yet exited.
C33_StartReallyStarts ==
    [][(session' = session + 1)
          => /\ reply' = "playback_started"
             /\ ProducerAlive' /\ (is_running' \/ p_pc' = "begin")
             /\ ConsumerAlive' /\ (c_is_running' \/ c_pc' = "begin")]_vars

----------------------------------------------------------------------------
(* C34 *)

----------------------------------------------------------------------------
(* C35 *)

\* C35 (as claimed): every batch the producer pushes covers a window of
\* positive width, window_start < window_end, so that no batch is pushed
\* once the cursor equals range_end.
C35_PositiveWidth ==
    \A i \in 1..Len(pushed) : pushed[i].ws < pushed[i].we

----------------------------------------------------------------------------
(* C36 *)

\* C36 (as claimed): in every reachable state the consumer's cumulative
\* count total_fires is at most the producer's processed_records.
C36_CountersConsistent ==
    fire_statistics.total_fires <= processed_records

----------------------------------------------------------------------------
(* C37 *)

\* The i-th batch of the session is empty although the store holds records
\* in its window: its tick query failed
FaultedWindow(i) ==
    /\ pushed[i].records = {}
    /\ QueryInterval(pushed[i].ws, pushed[i].we) # {}

\* C37: when the tick query over (cursor, next] fails and the lookahead query
\* from the same cursor returns records, the producer builds an empty batch
\* for the window and, once it is put, moves the cursor to next; no later
\* tick of the session queries a window that begins before next, and no
\* later batch holds a record of the failed window.
C37_NoRetry ==
    /\ [][(/\ ProducerQueryWith(TRUE, FALSE)
           /\ current_datetime < end_date
           /\ QueryInterval(current_datetime,
                            FutureCheckTime(current_datetime, end_date)) # {})
             => /\ p_pc' = "put"
                /\ batch_data' = FireBatch({}, next_datetime, current_speed)]_vars
    /\ [][(p_pc = "put" /\ p_pc' = "loop")
             => current_datetime' = next_datetime]_vars
    /\ [](\A i \in 1..Len(pushed) :
            FaultedWindow(i) =>
                \A j \in (i + 1)..Len(pushed) :
                    /\ pushed[j].ws >= pushed[i].we
                    /\ pushed[j].records
                         \cap QueryInterval(pushed[i].ws, pushed[i].we) = {})

\* A window whose tick query failed was pushed as an empty batch, and the
\* batch of a later window, with records, was pushed after it
C37_Witness ==
    \E i \in 1..Len(pushed) :
        /\ FaultedWindow(i)
        /\ \E j \in (i + 1)..Len(pushed) : pushed[j].records # {}

----------------------------------------------------------------------------
(* C38 *)

\* An item is put on the queue in this step, and it is an end-of-data signal
SentinelPut ==
    /\ Len(data_queue') = Len(data_queue) + 1
    /\ data_queue'[Len(data_queue')].type = "end_of_data"

\* C38: a run of the producer thread returns only by putting one end-of-data
\* signal on the queue, and an end-of-data signal is put only by the step
\* with which a run returns, so that each run that has entered its loop and
\* returns has put exactly one signal, as its last item, whether it ends by
\* a stop command, by the lookahead query or by an exception.
C38_OneSentinelLast ==
    /\ [][(ProducerAlive /\ ~ProducerAlive')
             => data_queue' = Append(data_queue, EndOfData)]_vars
    /\ [][SentinelPut => (p_pc = "finally" /\ ~ProducerAlive')]_vars

\* A run that pushed a batch and was stopped has returned, its end-of-data
\* signal the last item on the queue that the stop command drained
C38_Witness ==
    /\ stopped
    /\ pushed # <<>>
    /\ ~ProducerAlive
    /\ data_queue # <<>>
    /\ data_queue[Len(data_queue)].type = "end_of_data"

----------------------------------------------------------------------------
(* C39 *)

\* C39 (as claimed): when a session with range_start <= range_end that was
\* not stopped has run to its end, the records in its batches are at most
\* as many as total_records, the estimate the producer computed at its
\* start, and as many exactly when the store holds no record at range_start.
C39_EmittedVsEstimated ==
    (ProducerFinished /\ ~stopped /\ HistoryComplete /\ start_date <= end_date)
        => /\ SumRecords(pushed) <= total_records
           /\ (SumRecords(pushed) = total_records) <=> (start_date \notin store)

====
